---- MODULE Spec2Model ----
(***************************************************************************)
(* FlashVocab: the deck kept by App.tsx, the study session of              *)
(* StudySession (src/unnamed/part_001) and the lookup caches of the        *)
(* gemini service (src/unnamed/part_000).                                  *)
(*                                                                         *)
(* Strings are sequences of one-character strings, so that trim() and      *)
(* toLowerCase() are computed.  A timestamp in milliseconds t is held as   *)
(* the pair [d, ms] with t = d * MsPerDay + ms and 0 <= ms < MsPerDay      *)
(* (180 days of milliseconds exceed the 32-bit integers of the checker).   *)
(***************************************************************************)
EXTENDS Integers, Sequences, FiniteSets, TLC

VARIABLES
    \* ---- App.tsx
    savedWords,      \* useState<WordData[]>            (App.tsx:27)
    savedSentences,  \* useState<SentenceData[]>        (App.tsx:31)
    currentView,     \* 'search' | 'flashcards' | 'study' (App.tsx:22)
    studyQueue,      \* the words prop of StudySession  (App.tsx:35)
    now,             \* Date.now()
    \* ---- App.tsx: startup
    stored,          \* what localStorage holds under the keys the App reads
    phase,           \* "boot" before the first render, then "running" or
                     \* "crashed" when that render threw
    \* ---- App.tsx: the search view
    query,           \* App.tsx:14
    searchMode,      \* App.tsx:15
    wordData,        \* App.tsx:16, "none" for null
    sentenceData,    \* App.tsx:17, "none" for null
    loading,         \* App.tsx:18
    error,           \* App.tsx:20, "none" for null
    latestQueryRef,  \* App.tsx:25
    debounceTimers,  \* pending setTimeout callbacks of App.tsx:51
    debounceTimerRef,\* App.tsx:37, NoTimer for null
    debounceCleanup, \* the last run of the effect of App.tsx:48 returned its cleanup
    pendingSearches, \* handleSearch calls suspended at their await
    \* ---- history of the search view, for the properties
    submits,         \* the query of each handleSearch call that issued a lookup
    lastApplied,     \* the last outcome a handleSearch call wrote to the state
    \* ---- StudySession (part_001), meaningful while currentView = "study"
    queue,           \* part_001:19
    currentIndex,    \* part_001:20
    isFlipped,       \* part_001:21
    studyMode,       \* part_001:22, "none" for null
    sessionStats,    \* part_001:23
    autoRead,        \* part_001:24
    userInput,       \* part_001:26
    quizOptions,     \* part_001:27
    isAnswered,      \* part_001:28
    mountPending,    \* the effect of part_001:37 has not run yet
    advanceTimers,   \* pending setTimeout callbacks of part_001:69
    \* ---- history of the session, for the properties
    lastRate,        \* the last handleRate call that reached onUpdateWord
    gradeCount,      \* per queue position, the onUpdateWord calls made for it
    revealedFor,     \* position that was current when the reveal flag was set
    sessionStart,    \* Date.now() when onStartStudy ran
    sessions,        \* sessions started so far
    lastAdvance,     \* the last move of currentIndex to an item, and its speech
    lastCancel,      \* the last onComplete call: the screen it came from
    \* ---- gemini service (part_000)
    wordCache,       \* part_000:4
    sentenceCache,   \* part_000:5
    inflight,        \* generateContent calls awaiting their response
    lookups,         \* lookupWord / lookupSentence calls made so far
    successes,       \* lookups that returned a record, in the order they did
    lastLookup,      \* the last lookupWord / lookupSentence call
    lastFailure,     \* the last request that was rejected
    \* ---- App.tsx: quick lookups
    isSubLoading,    \* useState(false)                 (App.tsx:19)
    selectedDetail,  \* useState(null)                  (App.tsx:24)
    pendingQuick,    \* handleQuickLookup calls suspended at their await
    lastQuick        \* the quick lookups made, and the one whose record is shown

deckVars    == <<savedWords, savedSentences>>
bootVars    == <<stored, phase>>
appVars     == <<deckVars, currentView, studyQueue, now, bootVars>>
searchVars  == <<query, searchMode, wordData, sentenceData, loading, error,
                 latestQueryRef, debounceTimers, debounceTimerRef, debounceCleanup,
                 pendingSearches, submits, lastApplied>>
sessionVars == <<queue, currentIndex, isFlipped, studyMode, sessionStats, autoRead,
                 userInput, quizOptions, isAnswered, mountPending, advanceTimers>>
historyVars == <<lastRate, gradeCount, revealedFor, sessionStart, sessions,
                 lastAdvance, lastCancel>>
serviceVars == <<wordCache, sentenceCache, inflight, lookups, successes,
                 lastLookup, lastFailure>>
quickVars   == <<isSubLoading, selectedDetail, pendingQuick, lastQuick>>
vars        == <<appVars, searchVars, sessionVars, historyVars, serviceVars,
                 quickVars>>

----------------------------------------------------------------------------
\* Bounds of the model

\* words that can be looked up and saved: the first NumWords letters
NumWords == 2
\* entries of the deck read from localStorage at startup
MaxStored == 1
\* largest srs_level found in a stored deck (the table's last index is 6)
MaxStoredLevel == 7
\* study sessions started
MaxSessions == 1
\* clock: days and 200 ms ticks that may pass
MaxDay == 0
MaxTicks == 1
\* advance timers pending at once (grades given within the 200 ms delay)
MaxPending == 2
\* words of the list generateQuizOptions draws from
QuizWords == 5
\* lookupWord and lookupSentence calls made
MaxLookups == 3
\* handleSearch calls that reach the lookup
MaxSubmits == 3

----------------------------------------------------------------------------
\* Small helpers

Min(a, b) == IF a < b THEN a ELSE b
Max(a, b) == IF a > b THEN a ELSE b

Range(s) == {s[i] : i \in DOMAIN s}

\* the orders Array.prototype.sort can leave s in when its comparator is
\* () => Math.random() - 0.5: every permutation of s
Shuffles(s) ==
    {[i \in DOMAIN s |-> s[p[i]]] :
        p \in {q \in [DOMAIN s -> DOMAIN s] : \A i, j \in DOMAIN s : q[i] = q[j] => i = j}}

\* Array.prototype.slice(0, n)
Slice0(s, n) == SubSeq(s, 1, Min(n, Len(s)))

----------------------------------------------------------------------------
\* Strings

Letters == <<"a", "b", "c", "d", "e", "f">>

LowerChar(c) ==
    CASE c = "A" -> "a"
      [] c = "H" -> "h"
      [] OTHER   -> c

\* String.prototype.toLowerCase
ToLowerCase(s) == [i \in DOMAIN s |-> LowerChar(s[i])]

IsSpace(c) == c = " "

RECURSIVE TrimStart(_)
TrimStart(s) ==
    IF s # <<>> /\ IsSpace(Head(s)) THEN TrimStart(Tail(s)) ELSE s

RECURSIVE TrimEnd(_)
TrimEnd(s) ==
    IF s # <<>> /\ IsSpace(s[Len(s)]) THEN TrimEnd(SubSeq(s, 1, Len(s) - 1)) ELSE s

\* String.prototype.trim
Trim(s) == TrimEnd(TrimStart(s))

----------------------------------------------------------------------------
\* Time

MsPerDay == 24 * 60 * 60 * 1000

Time(d, ms) == [d |-> d, ms |-> ms]

\* next_review absent (undefined)
Unset == [d |-> -1, ms |-> 0]
\* the number NaN
NaN == [d |-> -2, ms |-> 0]

IsNumber(t) == t.d >= 0

AddTime(t, u) ==
    LET s == t.ms + u.ms
    IN  [d |-> t.d + u.d + (s \div MsPerDay), ms |-> s % MsPerDay]

\* a <= b on numbers; false when either is NaN or undefined
TimeLeq(a, b) ==
    /\ IsNumber(a)
    /\ IsNumber(b)
    /\ \/ a.d < b.d
       \/ a.d = b.d /\ a.ms <= b.ms

\* !t : undefined, NaN and 0 are falsy
Falsy(t) == ~IsNumber(t) \/ t = Time(0, 0)

\* days * 24 * 60 * 60 * 1000
DaysToMs(days) == Time(days, 0)

----------------------------------------------------------------------------
\* Deck items

\* srs_level absent (undefined)
NoLevel == -1

\* the meaning a looked-up or stored record carries for word w
MeaningOf(w) == <<"m">> \o w

\* a WordData of the deck: the looked-up record and its two review fields
Item(w, lvl, nr) ==
    [word |-> w, meaning_vi |-> MeaningOf(w), srs_level |-> lvl, next_review |-> nr]

\* a SentenceData of the sentence deck
SentenceItem(s, lvl, nr) == [sentence |-> s, srs_level |-> lvl, next_review |-> nr]

WordPool == {<<Letters[i]>> : i \in 1..NumWords}

SentencePool == {<<"h", "i">>}

\* the filter of dueCount
IsDue(w, t) == Falsy(w.next_review) \/ TimeLeq(w.next_review, t)

\* the decks localStorage may hold at startup: entries written by this or
\* another version of the app, srs_level absent or any integer >= 0
StoredLevels == {NoLevel} \cup (0..MaxStoredLevel)

\* next_review of a stored entry: absent, or a day the clock has yet to reach
StoredReviews == {Unset, Time(3, 0)}

StoredDecks ==
    {<<>>} \cup
    UNION {
        {d \in [1..n -> {Item(w, l, r) : w \in WordPool, l \in StoredLevels, r \in StoredReviews}] :
            \A i, j \in 1..n : d[i].word = d[j].word => i = j}
        : n \in 1..MaxStored}

StoredSentenceDecks ==
    {<<>>} \cup {<<SentenceItem(s, 0, Unset)>> : s \in SentencePool}

----------------------------------------------------------------------------
\* Startup: the initializers of savedWords and savedSentences (App.tsx:27-33)
\* and the first render

\* values of a localStorage key: no entry, text that is not JSON, and JSON
\* text of null, of an object and of an array
Absent        == [kind |-> "absent", items |-> <<>>]
Unparsable    == [kind |-> "text",   items |-> <<>>]
JsonNull      == [kind |-> "null",   items |-> <<>>]
JsonObject    == [kind |-> "object", items |-> <<>>]
JsonArray(d)  == [kind |-> "array",  items |-> d]

StoredWordValues ==
    {Absent, Unparsable, JsonNull, JsonObject} \cup {JsonArray(d) : d \in StoredDecks}

StoredSentenceValues ==
    {Absent, Unparsable, JsonNull, JsonObject} \cup
    {JsonArray(d) : d \in StoredSentenceDecks}

\* try { return JSON.parse(localStorage.getItem(key) || '[]'); } catch { return []; }
\* getItem gives null for no entry, JSON.parse throws on text that is not
\* JSON and returns whatever value the JSON text denotes otherwise
ParseStored(raw) ==
    CASE raw.kind = "absent" -> [type |-> "array", items |-> <<>>]
      [] raw.kind = "text"   -> [type |-> "array", items |-> <<>>]
      [] raw.kind = "array"  -> [type |-> "array", items |-> raw.items]
      [] OTHER               -> [type |-> raw.kind, items |-> <<>>]

\* the values the two useState hooks hold after construction
InitialWords     == ParseStored(stored.flashcards)
InitialSentences == ParseStored(stored.saved_sentences)

\* dueCount calls savedWords.filter and savedSentences.filter during render
\* (App.tsx:41-42): a TypeError unless both are arrays
FirstRenderThrows ==
    InitialWords.type # "array" \/ InitialSentences.type # "array"

\* localStorage with decks w and s as the effect of App.tsx:55-59 writes
\* them, and the text a under the key 'vocab_auto_read'
Persisted(w, s, a) ==
    [flashcards |-> JsonArray(w), saved_sentences |-> JsonArray(s),
     vocab_auto_read |-> a]

\* the texts the key 'vocab_auto_read' may hold ("none" for no entry)
AutoReadValues == {"none", "true", "false"}

----------------------------------------------------------------------------
\* StudySession: the scheduler inside handleRate (part_001:54-65)

SRS_INTERVALS == <<1, 3, 7, 14, 30, 90, 180>>

Ratings == {"fail", "hard", "good", "easy"}

\* SRS_INTERVALS.length - 1
LastIndex == Len(SRS_INTERVALS) - 1

\* currentWord.srs_level || 0
LevelOrZero(w) == IF w.srs_level = NoLevel THEN 0 ELSE w.srs_level

\* the switch without the clamp of its good branch
NewLevelUnclamped(level, rating) ==
    CASE rating = "fail" -> 0
      [] rating = "hard" -> Max(0, level)
      [] rating = "good" -> level + 1
      [] rating = "easy" -> Min(level + 2, LastIndex)

\* the switch of handleRate
NewLevel(level, rating) ==
    CASE rating = "fail" -> 0
      [] rating = "hard" -> Max(0, level)
      [] rating = "good" -> Min(level + 1, LastIndex)
      [] rating = "easy" -> Min(level + 2, LastIndex)

\* Date.now() + SRS_INTERVALS[newLevel] * 24 * 60 * 60 * 1000; an index past
\* the table reads undefined, and the sum is NaN
NextReviewDate(t, newLevel) ==
    IF newLevel + 1 \in DOMAIN SRS_INTERVALS
    THEN AddTime(t, DaysToMs(SRS_INTERVALS[newLevel + 1]))
    ELSE NaN

\* the updated word built from the word and the two review fields alone
RatedWordBare(w, rating, t) ==
    LET newLevel == NewLevel(LevelOrZero(w), rating)
    IN  [word |-> w.word, meaning_vi |-> <<>>, srs_level |-> newLevel,
         next_review |-> NextReviewDate(t, newLevel)]

\* { ...currentWord, srs_level: newLevel, next_review: nextReviewDate }
RatedWord(w, rating, t) ==
    LET newLevel == NewLevel(LevelOrZero(w), rating)
    IN  [w EXCEPT !.srs_level = newLevel, !.next_review = NextReviewDate(t, newLevel)]

\* the map without its test of the word: every entry is replaced
UpdateWordAll(deck, w) == [i \in DOMAIN deck |-> w]

\* the update not reaching the deck
UpdateWordDropped(deck, w) == deck

\* onUpdateWord of App.tsx:176
UpdateWord(deck, w) ==
    [i \in DOMAIN deck |-> IF deck[i].word = w.word THEN w ELSE deck[i]]

----------------------------------------------------------------------------
\* StudySession: what is rendered

StudyModes == {"flashcard", "typing", "quiz"}

\* no handler of the component shown sets isRecording (part_001:31)
isRecording == FALSE

\* queue[currentIndex] is an element of the queue, not undefined
HasCurrentWord == currentIndex + 1 \in DOMAIN queue
CurrentWord == queue[currentIndex + 1]

\* the ModeSelect test without its queue.length > 0
ShowsModeSelectNoLength == studyMode = "none"

ShowsModeSelect == studyMode = "none" /\ Len(queue) > 0

ShowsComplete == Len(queue) = 0 \/ currentIndex >= Len(queue)

\* the three returns of the component, in order (part_001:115, 142, 158)
Screen ==
    IF ShowsModeSelect THEN "ModeSelect"
    ELSE IF ShowsComplete THEN "Complete"
    ELSE "Active"

\* the grading buttons take pointer events (part_001:217)
GradeButtonsEnabled == isFlipped \/ isAnswered

\* generateQuizOptions without its filter of the correct word
GenerateQuizOptionsNoFilter(words, correctWord) ==
    IF Len(words) < 2 THEN {<<correctWord>>}
    ELSE LET picked == {Slice0(s, 3) : s \in Shuffles(words)}
             distractors == {[i \in DOMAIN p |-> p[i].word] : p \in picked}
         IN  UNION {Shuffles(Append(d, correctWord)) : d \in distractors}

\* generateQuizOptions (part_001:48-52): every list it can return
GenerateQuizOptions(words, correctWord) ==
    IF Len(words) < 2 THEN {<<correctWord>>}
    ELSE LET others == SelectSeq(words, LAMBDA w : w.word # correctWord)
             picked == {Slice0(s, 3) : s \in Shuffles(others)}
             distractors == {[i \in DOMAIN p |-> p[i].word] : p \in picked}
         IN  UNION {Shuffles(Append(d, correctWord)) : d \in distractors}

\* the effect of part_001:97-106, run after a render in which currentIndex,
\* currentWord, studyMode or isFlipped changed; idx and mode are the values
\* of that render
ItemEffect(q, idx, mode) ==
    IF idx + 1 \in DOMAIN q
    THEN /\ quizOptions' \in
                (IF mode = "quiz"
                 THEN GenerateQuizOptions(studyQueue, q[idx + 1].word)
                 ELSE {quizOptions})
         /\ userInput' = <<>>
         /\ isAnswered' = FALSE
    ELSE UNCHANGED <<quizOptions, userInput, isAnswered>>

\* the position whose word the same effect hands to speak() (part_001:99),
\* -1 when it speaks nothing; flipped is the isFlipped of that render
EffectSpeaks(q, idx, mode, flipped) ==
    IF idx + 1 \in DOMAIN q /\ autoRead /\ mode = "flashcard" /\ ~flipped
    THEN idx
    ELSE -1

\* the position whose answer is on show after a step
KeepReveal == revealedFor' = IF isFlipped' \/ isAnswered' THEN revealedFor ELSE -1

----------------------------------------------------------------------------
\* Initial state

NoRate == [index |-> -1, word |-> <<>>, prior |-> NoLevel, rating |-> "none",
           srs_level |-> NoLevel, next_review |-> Unset, at |-> Unset,
           revealedFor |-> -1, spoke |-> -1]

NoAdvance == [index |-> -1, spoke |-> -1]

NoCancel == [from |-> "none", pending |-> FALSE]

NoLookup == [kind |-> "none", input |-> <<>>, hit |-> FALSE, network |-> FALSE,
             returned |-> "none", seen |-> 0]

NoApplied == [sub |-> 0, latest |-> 0, outcome |-> "none"]

NoFailure == [id |-> 0, kind |-> "none", key |-> <<>>]

\* no quick lookup made, none whose record is shown
NoQuick == [calls |-> 0, shown |-> 0, answered |-> FALSE]

\* debounceTimerRef.current = null
NoTimer == [query |-> <<>>, mode |-> "none"]

Unmounted ==
    /\ queue = <<>>
    /\ currentIndex = 0
    /\ isFlipped = FALSE
    /\ studyMode = "none"
    /\ sessionStats = [reviewed |-> 0, forgotten |-> 0]
    /\ autoRead = FALSE
    /\ userInput = <<>>
    /\ quizOptions = <<>>
    /\ isAnswered = FALSE
    /\ mountPending = FALSE
    /\ advanceTimers = 0

NoHistory ==
    /\ lastRate = NoRate
    /\ gradeCount = <<>>
    /\ revealedFor = -1
    /\ sessionStart = Unset
    /\ lastAdvance = NoAdvance
    /\ lastCancel = NoCancel

\* the component's state is dropped, and the session's history with it
Unmount ==
    /\ queue' = <<>>
    /\ currentIndex' = 0
    /\ isFlipped' = FALSE
    /\ studyMode' = "none"
    /\ sessionStats' = [reviewed |-> 0, forgotten |-> 0]
    /\ autoRead' = FALSE
    /\ userInput' = <<>>
    /\ quizOptions' = <<>>
    /\ isAnswered' = FALSE
    /\ mountPending' = FALSE
    /\ advanceTimers' = 0
    /\ lastRate' = NoRate
    /\ gradeCount' = <<>>
    /\ revealedFor' = -1
    /\ sessionStart' = Unset
    /\ lastAdvance' = NoAdvance

\* App.tsx:14-25, 37: the search view before anything was typed
SearchViewInit ==
    /\ query = <<>>
    /\ searchMode = "word"
    /\ wordData = "none"
    /\ sentenceData = "none"
    /\ loading = FALSE
    /\ error = "none"
    /\ latestQueryRef = <<>>
    /\ debounceTimers = {}
    /\ debounceTimerRef = NoTimer
    /\ debounceCleanup = FALSE
    /\ pendingSearches = {}
    /\ submits = <<>>
    /\ lastApplied = NoApplied

ServiceInit ==
    /\ wordCache = {}
    /\ sentenceCache = {}
    /\ inflight = {}
    /\ lookups = 0
    /\ successes = <<>>
    /\ lastLookup = NoLookup
    /\ lastFailure = NoFailure
    /\ isSubLoading = FALSE
    /\ selectedDetail = "none"
    /\ pendingQuick = {}
    /\ lastQuick = NoQuick

\* the App after its first render over decks w and s
Running(w, s, a) ==
    /\ savedWords = w
    /\ savedSentences = s
    /\ stored = Persisted(w, s, a)
    /\ phase = "running"
    /\ currentView = "search"
    /\ studyQueue = <<>>
    /\ now = Time(1, 0)
    /\ sessions = 0
    /\ SearchViewInit
    /\ Unmounted
    /\ NoHistory
    /\ ServiceInit

\* App.tsx:14-35 after the first render: the decks are the arrays that
\* localStorage held, the view is 'search'
Init ==
    \E w \in StoredDecks :
        Running(w, <<SentenceItem(<<"h", "i">>, 0, Unset)>>, "none")

----------------------------------------------------------------------------
\* App.tsx: the deck and the views

\* the effect of App.tsx:55-59, run after a render that changed a deck to w
\* or s
PersistEffect(w, s) == stored' = Persisted(w, s, stored.vocab_auto_read)

\* the debounce effect without the cleanup it returns
DebounceEffectNoCleanup(view, q, mode) ==
    IF view # "search" \/ Len(Trim(q)) < 2
    THEN [timers |-> debounceTimers, ref |-> debounceTimerRef, cleanup |-> FALSE]
    ELSE [timers  |-> {t \in debounceTimers : t # debounceTimerRef}
                         \cup {[query |-> q, mode |-> mode]},
          ref     |-> [query |-> q, mode |-> mode],
          cleanup |-> FALSE]

\* the effect of App.tsx:48-53 re-run for changed query, searchMode or
\* currentView: first the cleanup the previous run returned, then the run
\* itself; the timer holds the handleSearch of the render that set it
DebounceEffect(view, q, mode) ==
    LET cleaned == IF debounceCleanup
                   THEN {t \in debounceTimers : t # debounceTimerRef}
                   ELSE debounceTimers
    IN  IF view # "search" \/ Len(Trim(q)) < 2
        THEN [timers |-> cleaned, ref |-> debounceTimerRef, cleanup |-> FALSE]
        ELSE [timers  |-> {t \in cleaned : t # debounceTimerRef}
                             \cup {[query |-> q, mode |-> mode]},
              ref     |-> [query |-> q, mode |-> mode],
              cleanup |-> TRUE]

RunDebounceEffect(view, q, mode) ==
    LET e == DebounceEffect(view, q, mode)
    IN  /\ debounceTimers' = e.timers
        /\ debounceTimerRef' = e.ref
        /\ debounceCleanup' = e.cleanup

\* the test of the saved words with the case kept
IsItemSavedCased(w) ==
    \E i \in DOMAIN savedWords : savedWords[i].word = w

\* isItemSaved (App.tsx:83-86), for a word item
IsItemSaved(w) ==
    \E i \in DOMAIN savedWords : ToLowerCase(savedWords[i].word) = ToLowerCase(w)

\* handleToggleSave (App.tsx:88-92) for the word record on show; the cards
\* that call it are covered by the study session while it is mounted
HandleToggleSave(w) ==
    /\ phase = "running"
    /\ currentView # "study"
    /\ savedWords' =
          IF IsItemSaved(w)
          THEN SelectSeq(savedWords, LAMBDA x : ToLowerCase(x.word) # ToLowerCase(w))
          ELSE <<Item(w, 0, now)>> \o savedWords
    /\ PersistEffect(savedWords', savedSentences)
    /\ UNCHANGED <<savedSentences, currentView, studyQueue, now, phase, searchVars,
                   sessionVars, historyVars, serviceVars, quickVars>>

\* onRemoveWord (App.tsx:162)
RemoveWord(s) ==
    /\ phase = "running"
    /\ currentView = "flashcards"
    /\ \E i \in DOMAIN savedWords : savedWords[i].word = s
    /\ savedWords' = SelectSeq(savedWords, LAMBDA x : x.word # s)
    /\ PersistEffect(savedWords', savedSentences)
    /\ UNCHANGED <<savedSentences, currentView, studyQueue, now, phase, searchVars,
                   sessionVars, historyVars, serviceVars, quickVars>>

\* onRemoveSentence (App.tsx:163)
RemoveSentence(s) ==
    /\ phase = "running"
    /\ currentView = "flashcards"
    /\ \E i \in DOMAIN savedSentences : savedSentences[i].sentence = s
    /\ savedSentences' = SelectSeq(savedSentences, LAMBDA x : x.sentence # s)
    /\ PersistEffect(savedWords, savedSentences')
    /\ UNCHANGED <<savedWords, currentView, studyQueue, now, phase, searchVars,
                   sessionVars, historyVars, serviceVars, quickVars>>

\* isItemSaved (App.tsx:85) for a sentence record
IsSentenceSaved(t) ==
    \E i \in DOMAIN savedSentences : savedSentences[i].sentence = t

\* handleToggleSave (App.tsx:93-95) for the sentence record on show
HandleToggleSaveSentence(t) ==
    /\ phase = "running"
    /\ currentView # "study"
    /\ savedSentences' =
          IF IsSentenceSaved(t)
          THEN SelectSeq(savedSentences, LAMBDA x : x.sentence # t)
          ELSE <<SentenceItem(t, 0, now)>> \o savedSentences
    /\ PersistEffect(savedWords, savedSentences')
    /\ UNCHANGED <<savedWords, currentView, studyQueue, now, phase, searchVars,
                   sessionVars, historyVars, serviceVars, quickVars>>

\* the header buttons (App.tsx:116-117), covered while a session is mounted;
\* the debounce effect depends on currentView
SetCurrentView(v) ==
    /\ phase = "running"
    /\ currentView # "study"
    /\ currentView # v
    /\ currentView' = v
    /\ RunDebounceEffect(v, query, searchMode)
    /\ UNCHANGED <<deckVars, studyQueue, now, bootVars, query, searchMode, wordData,
                   sentenceData, loading, error, latestQueryRef, pendingSearches,
                   submits, lastApplied, sessionVars, historyVars,
                   serviceVars, quickVars>>

\* onStartStudy (App.tsx:164) for at most n sessions; StudySession mounts
\* with its initial state
StartStudyUpTo(n) ==
    /\ phase = "running"
    /\ currentView = "flashcards"
    /\ sessions < n
    /\ studyQueue' \in Shuffles(savedWords)
    /\ currentView' = "study"
    /\ mountPending' = TRUE
    /\ autoRead' = (stored.vocab_auto_read = "true")
    /\ sessionStart' = now
    /\ sessions' = sessions + 1
    /\ lastCancel' = NoCancel
    /\ UNCHANGED <<deckVars, now, bootVars, searchVars, queue, currentIndex, isFlipped,
                   studyMode, sessionStats, userInput, quizOptions, isAnswered,
                   advanceTimers, lastRate, gradeCount, revealedFor, lastAdvance, serviceVars, quickVars>>

StartStudy == StartStudyUpTo(MaxSessions)

\* time passes: one day, or the 200 ms of the advance timer
AdvanceClock ==
    /\ \/ /\ now.d < 1 + MaxDay
          /\ now' = AddTime(now, Time(1, 0))
       \/ /\ now.ms < 200 * MaxTicks
          /\ now' = AddTime(now, Time(0, 200))
    /\ UNCHANGED <<deckVars, currentView, studyQueue, bootVars, searchVars, sessionVars,
                   historyVars, serviceVars, quickVars>>

----------------------------------------------------------------------------
\* StudySession: its effects and handlers

\* useEffect(() => { if (words.length > 0) setQueue(words); }, [words])
\* (part_001:37): the first render has queue = [], the effect runs after it
QueueInitEffect ==
    /\ currentView = "study"
    /\ mountPending
    /\ mountPending' = FALSE
    /\ queue' = IF Len(studyQueue) > 0 THEN studyQueue ELSE queue
    /\ gradeCount' = [i \in DOMAIN queue' |-> 0]
    /\ ItemEffect(queue', currentIndex, studyMode)
    /\ UNCHANGED <<appVars, searchVars, currentIndex, isFlipped, studyMode,
                   sessionStats, autoRead, advanceTimers, lastRate, revealedFor,
                   sessionStart, sessions, lastAdvance, lastCancel, serviceVars, quickVars>>

Mounted == currentView = "study" /\ ~mountPending

\* the three mode buttons of the ModeSelect screen (part_001:123-134)
SetStudyMode(m) ==
    /\ Mounted
    /\ Screen = "ModeSelect"
    /\ studyMode' = m
    /\ ItemEffect(queue, currentIndex, m)
    /\ UNCHANGED <<appVars, searchVars, queue, currentIndex, isFlipped, sessionStats,
                   autoRead, mountPending, advanceTimers, lastRate, gradeCount,
                   sessionStart, sessions, lastAdvance, lastCancel, serviceVars, quickVars>>
    /\ KeepReveal

\* handleFlip (part_001:75-78), the click on the card of Flashcard mode
HandleFlip ==
    /\ Mounted
    /\ Screen = "Active"
    /\ studyMode = "flashcard"
    /\ ~(isRecording \/ studyMode # "flashcard")
    /\ isFlipped' = ~isFlipped
    /\ ItemEffect(queue, currentIndex, studyMode)
    /\ revealedFor' = IF isFlipped' THEN currentIndex ELSE -1
    /\ UNCHANGED <<appVars, searchVars, queue, currentIndex, studyMode, sessionStats,
                   autoRead, mountPending, advanceTimers, lastRate, gradeCount,
                   sessionStart, sessions, lastAdvance, lastCancel, serviceVars, quickVars>>

\* what the user can type into the input of Typing mode
TypedTexts == {<<>>, <<" ">>, <<"a", " ">>}

\* onChange of the typing input, disabled once answered (part_001:192-193)
SetUserInput(text) ==
    /\ Mounted
    /\ Screen = "Active"
    /\ studyMode = "typing"
    /\ ~isAnswered
    /\ text # userInput
    /\ userInput' = text
    /\ UNCHANGED <<appVars, searchVars, queue, currentIndex, isFlipped, studyMode,
                   sessionStats, autoRead, quizOptions, isAnswered, mountPending,
                   advanceTimers, historyVars, serviceVars, quickVars>>

\* handleCheckTyping (part_001:80-87): the form is submitted from the input
\* or the button, both gone once answered
HandleCheckTyping ==
    /\ Mounted
    /\ Screen = "Active"
    /\ studyMode = "typing"
    /\ ~isAnswered
    /\ Trim(userInput) # <<>>
    /\ isAnswered' = TRUE
    /\ revealedFor' = currentIndex
    /\ UNCHANGED <<appVars, searchVars, queue, currentIndex, isFlipped, studyMode,
                   sessionStats, autoRead, userInput, quizOptions, mountPending,
                   advanceTimers, lastRate, gradeCount, sessionStart, sessions,
                   lastAdvance, lastCancel,
                   serviceVars, quickVars>>

\* handleSelectQuiz (part_001:89-95) on one of the option buttons
HandleSelectQuiz(i) ==
    /\ Mounted
    /\ Screen = "Active"
    /\ studyMode = "quiz"
    /\ i \in DOMAIN quizOptions
    /\ ~isAnswered
    /\ isAnswered' = TRUE
    /\ revealedFor' = currentIndex
    /\ UNCHANGED <<appVars, searchVars, queue, currentIndex, isFlipped, studyMode,
                   sessionStats, autoRead, userInput, quizOptions, mountPending,
                   advanceTimers, lastRate, gradeCount, sessionStart, sessions,
                   lastAdvance, lastCancel,
                   serviceVars, quickVars>>

\* handleRate (part_001:54-73) from one of the four grading buttons
HandleRate(rating) ==
    /\ Mounted
    /\ Screen = "Active"
    /\ GradeButtonsEnabled
    /\ advanceTimers < MaxPending
    /\ IF ~HasCurrentWord
       THEN UNCHANGED <<appVars, sessionVars, historyVars>>
       ELSE LET w == RatedWord(CurrentWord, rating, now)
                advances == currentIndex < Len(queue) - 1
            IN  /\ savedWords' = UpdateWord(savedWords, w)
                /\ sessionStats' =
                      [reviewed  |-> sessionStats.reviewed + 1,
                       forgotten |-> sessionStats.forgotten +
                                        (IF rating = "fail" THEN 1 ELSE 0)]
                /\ lastRate' =
                      [index |-> currentIndex, word |-> CurrentWord.word,
                       prior |-> CurrentWord.srs_level, rating |-> rating,
                       srs_level |-> w.srs_level, next_review |-> w.next_review,
                       at |-> now, revealedFor |-> revealedFor,
                       spoke |-> IF advances /\ isFlipped
                                 THEN EffectSpeaks(queue, currentIndex, studyMode, FALSE)
                                 ELSE -1]
                /\ gradeCount' = [gradeCount EXCEPT ![currentIndex + 1] = @ + 1]
                /\ IF advances
                   THEN /\ isFlipped' = FALSE
                        /\ advanceTimers' = advanceTimers + 1
                        /\ currentIndex' = currentIndex
                        /\ IF isFlipped
                           THEN ItemEffect(queue, currentIndex, studyMode)
                           ELSE UNCHANGED <<quizOptions, userInput, isAnswered>>
                   ELSE /\ currentIndex' = currentIndex + 1
                        /\ UNCHANGED <<isFlipped, advanceTimers, quizOptions,
                                       userInput, isAnswered>>
                /\ KeepReveal
                /\ lastAdvance' = IF advances THEN lastAdvance ELSE NoAdvance
                /\ PersistEffect(savedWords', savedSentences)
                /\ UNCHANGED <<savedSentences, currentView, studyQueue, now, phase,
                               queue, studyMode, autoRead, mountPending, sessionStart,
                               sessions, lastCancel>>
    /\ UNCHANGED <<searchVars, serviceVars, quickVars>>

\* the callback of setTimeout(() => setCurrentIndex(prev => prev + 1), 200)
AdvanceTimerFires ==
    /\ Mounted
    /\ advanceTimers > 0
    /\ advanceTimers' = advanceTimers - 1
    /\ currentIndex' = currentIndex + 1
    /\ ItemEffect(queue, currentIndex', studyMode)
    /\ lastAdvance' =
          IF currentIndex' + 1 \in DOMAIN queue
          THEN [index |-> currentIndex',
                spoke |-> EffectSpeaks(queue, currentIndex', studyMode, isFlipped)]
          ELSE NoAdvance
    /\ UNCHANGED <<appVars, searchVars, queue, isFlipped, studyMode, sessionStats,
                   autoRead, mountPending, lastRate, gradeCount, sessionStart,
                   sessions, lastCancel,
                   serviceVars, quickVars>>
    /\ KeepReveal

\* onComplete (App.tsx:176): the cancel buttons of ModeSelect and Active and
\* the button of Complete; StudySession unmounts and its timers find no
\* component to update
OnComplete ==
    /\ Mounted
    /\ currentView' = "flashcards"
    /\ lastCancel' =
          [from |-> Screen, pending |-> advanceTimers > 0]
    /\ Unmount
    /\ UNCHANGED <<deckVars, studyQueue, now, bootVars, searchVars, sessions, serviceVars, quickVars>>

Next ==
    \/ \E w \in WordPool : HandleToggleSave(w)
    \/ \E w \in WordPool : RemoveWord(w)
    \/ \E v \in {"search", "flashcards"} : SetCurrentView(v)
    \/ StartStudy
    \/ AdvanceClock
    \/ QueueInitEffect
    \/ \E m \in StudyModes : SetStudyMode(m)
    \/ HandleFlip
    \/ \E text \in TypedTexts : SetUserInput(text)
    \/ HandleCheckTyping
    \/ \E i \in 1..4 : HandleSelectQuiz(i)
    \/ \E rating \in Ratings : HandleRate(rating)
    \/ AdvanceTimerFires
    \/ OnComplete

Spec == Init /\ [][Next]_vars

----------------------------------------------------------------------------
\* Properties of the scheduler and the study session

Rated == lastRate # NoRate

\* the level handleRate read from the item: absent counts as 0
PriorLevel == IF lastRate.prior = NoLevel THEN 0 ELSE lastRate.prior

\* C1: for every level L in 0..6 of the graded item (absent read as 0),
\* handleRate writes level 0 for fail, min(L + 1, 6) for good and
\* min(L + 2, 6) for easy.
C1_LevelPolicy ==
    Rated /\ PriorLevel \in 0..6 =>
        /\ lastRate.rating = "fail" => lastRate.srs_level = 0
        /\ lastRate.rating = "good" =>
              lastRate.srs_level = (IF PriorLevel + 1 <= 6 THEN PriorLevel + 1 ELSE 6)
        /\ lastRate.rating = "easy" =>
              lastRate.srs_level = (IF PriorLevel + 2 <= 6 THEN PriorLevel + 2 ELSE 6)

\* a grade good on an item at the last level, which the clamp keeps at 6
C1_Witness ==
    /\ Rated
    /\ lastRate.rating = "good"
    /\ lastRate.prior = 6
    /\ lastRate.srs_level = 6

\* grading time + table[level] days, for a level that indexes the table
ScheduledFrom(level) ==
    LET table == <<1, 3, 7, 14, 30, 90, 180>>
    IN  /\ level \in 0..6
        /\ lastRate.next_review = AddTime(lastRate.at, Time(table[level + 1], 0))

\* C2: for every stored level L, grade hard writes level L unchanged and
\* reschedules next_review from the grading time.
C2_HardKeepsLevel ==
    Rated /\ lastRate.rating = "hard" =>
        /\ lastRate.srs_level = PriorLevel
        /\ ScheduledFrom(lastRate.srs_level)

\* C3: for every grade and every prior level, the next_review written is the
\* grading time plus SRS_INTERVALS[newLevel] * 86,400,000 ms, newLevel being
\* the level the same call wrote.
C3_NextReview == Rated => ScheduledFrom(lastRate.srs_level)

\* C4: every grade writes an srs_level in 0..6 whatever level the item
\* carried before, and the deck entry it wrote holds that valid index.
C4_ValidIndex ==
    Rated =>
        /\ lastRate.srs_level \in 0..6
        /\ \A i \in DOMAIN savedWords :
              savedWords[i].word = lastRate.word => savedWords[i].srs_level \in 0..6

\* C5: every item of the queue of a session started from the deck page is
\* due when the session starts: next_review unset or <= now.
C5_QueueIsDue ==
    currentView = "study" =>
        \A i \in DOMAIN studyQueue :
            \/ studyQueue[i].next_review = Unset
            \/ TimeLeq(studyQueue[i].next_review, sessionStart)

\* the session shows Complete after grading, not by being empty or cancelled
ReachedComplete == Mounted /\ Len(queue) > 0 /\ currentIndex >= Len(queue)

\* C6: in a session that reaches Complete, every item of the queue was graded
\* exactly once, and reviewed is the queue length.
C6_EachGradedOnce ==
    ReachedComplete =>
        /\ \A i \in DOMAIN gradeCount : gradeCount[i] = 1
        /\ sessionStats.reviewed = Len(queue)
        /\ currentIndex = Len(queue)

\* C7: a grade is applied to item i only if its answer was revealed while i
\* was the current item.
C7_GradeOnlyRevealed == Rated => lastRate.revealedFor = lastRate.index

EmptySession == currentView = "study" /\ studyQueue = <<>>

\* C8: a session started with an empty list shows Complete from its first
\* render on, with reviewed = 0 and forgotten = 0, never ModeSelect or
\* Active, and no step taken during it changes the deck.
C8_EmptySession ==
    /\ [](EmptySession =>
            /\ Screen = "Complete"
            /\ sessionStats = [reviewed |-> 0, forgotten |-> 0]
            /\ ~Rated)
    /\ [][EmptySession => savedWords' = savedWords]_vars

\* an empty session after its queue effect ran, on a deck that is now shown
C8_Witness == EmptySession /\ Mounted /\ Screen = "Complete"

\* a step in which handleRate reached onUpdateWord
Graded == currentView = "study" /\ sessionStats'.reviewed = sessionStats.reviewed + 1

\* C15: a grade changes the deck only in srs_level and next_review of the
\* entry whose word is the graded item's; its other fields, every other
\* entry of both decks, and the size and order of the deck stay as they were.
C15_GradeFrame ==
    [][Graded =>
          /\ Len(savedWords') = Len(savedWords)
          /\ \A i \in DOMAIN savedWords :
                /\ savedWords'[i].word = savedWords[i].word
                /\ savedWords'[i].meaning_vi = savedWords[i].meaning_vi
                /\ savedWords[i].word # CurrentWord.word =>
                      savedWords'[i] = savedWords[i]
          /\ savedSentences' = savedSentences]_vars

\* a grade was written into a deck of two words next to a sentence deck
C15_Witness ==
    /\ Rated
    /\ Len(savedWords) = 2
    /\ savedSentences # <<>>
    /\ \E i, j \in DOMAIN savedWords :
          /\ savedWords[i].word = lastRate.word
          /\ savedWords[i].srs_level = lastRate.srs_level
          /\ savedWords[i].next_review = lastRate.next_review
          /\ savedWords[j].word # lastRate.word

\* C16: after a cancel from ModeSelect or Active, a timer pending or not,
\* every queue item that was not graded has the srs_level and next_review it
\* had before the session, and the session writes nothing to the deck any
\* more.
C16_CancelKeepsUngraded ==
    /\ [](Mounted =>
            \A i \in DOMAIN queue :
                gradeCount[i] = 0 =>
                    /\ \E j \in DOMAIN savedWords : savedWords[j] = queue[i]
                    /\ \A j \in DOMAIN savedWords :
                          savedWords[j].word = queue[i].word =>
                              /\ savedWords[j].srs_level = queue[i].srs_level
                              /\ savedWords[j].next_review = queue[i].next_review)
    /\ [][currentView = "study" /\ currentView' # "study" =>
             /\ savedWords' = savedWords
             /\ advanceTimers' = 0]_vars
    /\ [][currentView # "study" => lastRate' = NoRate /\ advanceTimers' = 0]_vars

\* cancelled in Active while a timer was pending: one item graded, the other
\* one still as it was queued
C16_Witness ==
    /\ currentView = "flashcards"
    /\ lastCancel.from = "Active"
    /\ lastCancel.pending
    /\ \E i, j \in DOMAIN studyQueue :
          /\ \E k \in DOMAIN savedWords : savedWords[k] = studyQueue[i]
          /\ \E k \in DOMAIN savedWords :
                /\ savedWords[k].word = studyQueue[j].word
                /\ savedWords[k] # studyQueue[j]

\* the level policy of the scheduler as the specification states it
PolicyLevel(level, rating) ==
    CASE rating = "fail" -> 0
      [] rating = "hard" -> level
      [] rating = "good" -> IF level + 1 <= 6 THEN level + 1 ELSE 6
      [] rating = "easy" -> IF level + 2 <= 6 THEN level + 2 ELSE 6

\* the level an entry of the deck counts for: absent is 0
DeckLevel(e) == IF e.srs_level = -1 THEN 0 ELSE e.srs_level

\* C17: the grades given to an item in successive sessions compose: each
\* session's grade starts from the level the deck holds, which is the one
\* the previous session wrote, so the deck level after grades g1..gk is the
\* policy folded over them (0 -> 1 -> 3 for good then easy).
C17_SessionsCompose ==
    [][Graded /\ gradeCount[currentIndex + 1] = 0 =>
          \A j \in DOMAIN savedWords :
              savedWords[j].word = CurrentWord.word =>
                  savedWords'[j].srs_level =
                      PolicyLevel(DeckLevel(savedWords[j]), lastRate'.rating)]_vars

\* the second session grades easy on the level 1 that the first session's
\* good wrote over level 0, and the deck holds 3
C17_Witness ==
    /\ sessions = 2
    /\ lastRate.rating = "easy"
    /\ lastRate.prior = 1
    /\ \E i \in DOMAIN studyQueue :
          /\ studyQueue[i].word = lastRate.word
          /\ studyQueue[i].srs_level = 1
          /\ IsNumber(studyQueue[i].next_review)
    /\ \E j \in DOMAIN savedWords :
          /\ savedWords[j].word = lastRate.word
          /\ savedWords[j].srs_level = 3

\* C18: a session over a non-empty list shows ModeSelect, then Active, then
\* Complete: Complete never before a mode was chosen and only once
\* currentIndex has passed the end of the queue, the mode never changes once
\* chosen, and ModeSelect never comes back.
C18_StateOrder ==
    /\ [](currentView = "study" /\ studyQueue # <<>> /\ Screen = "Complete" =>
            /\ studyMode # "none"
            /\ Len(queue) > 0
            /\ currentIndex >= Len(queue))
    /\ [][currentView = "study" /\ currentView' = "study" /\ studyQueue # <<>> =>
             /\ studyMode # "none" => studyMode' = studyMode
             /\ Screen # "ModeSelect" => Screen' # "ModeSelect"
             /\ Screen = "Complete" => Screen' = "Complete"]_vars

\* C19: in Flashcard mode with auto-pronounce on, a grade that advances to a
\* next item makes the effect speak the new item's word, and makes it speak
\* nothing for the item that was just graded.
C19_AutoSpeech ==
    autoRead /\ studyMode = "flashcard" =>
        /\ Rated => lastRate.spoke # lastRate.index
        /\ lastAdvance # NoAdvance => lastAdvance.spoke = lastAdvance.index

\* C23: in every state of a study session 0 <= currentIndex <= queue
\* length, and forgotten <= reviewed <= queue length.
C23_SessionBounds ==
    Mounted =>
        /\ 0 <= currentIndex
        /\ currentIndex <= Len(queue)
        /\ sessionStats.forgotten <= sessionStats.reviewed
        /\ sessionStats.reviewed <= Len(queue)

----------------------------------------------------------------------------
\* Successive sessions over a deck of two words

\* sessions started in a row
MaxComposed == 3

\* the levels the first word starts from
ComposedLevels == {NoLevel, 0, 5, 7}

ComposeInit ==
    \E l \in ComposedLevels :
        Running(<<Item(<<"a">>, l, Unset), Item(<<"b">>, 0, Unset)>>, <<>>, "none")

ComposeNext ==
    \/ \E v \in {"search", "flashcards"} : SetCurrentView(v)
    \/ StartStudyUpTo(MaxComposed)
    \/ AdvanceClock
    \/ QueueInitEffect
    \/ \E m \in StudyModes : SetStudyMode(m)
    \/ HandleFlip
    \/ \E text \in TypedTexts : SetUserInput(text)
    \/ HandleCheckTyping
    \/ \E i \in 1..4 : HandleSelectQuiz(i)
    \/ \E rating \in Ratings : HandleRate(rating)
    \/ AdvanceTimerFires
    \/ OnComplete

ComposeSpec == ComposeInit /\ [][ComposeNext]_vars

----------------------------------------------------------------------------
\* A session over two words, with the auto-pronounce setting localStorage
\* holds

SpeechInit ==
    \E a \in AutoReadValues :
        Running(<<Item(<<"a">>, 0, Unset), Item(<<"b">>, 0, Unset)>>, <<>>, a)

SpeechSpec == SpeechInit /\ [][Next]_vars

----------------------------------------------------------------------------
\* generateQuizOptions on its own: a quiz session over up to QuizWords words,
\* at any of its items

QuizDeck(n) == [i \in 1..n |-> Item(<<Letters[i]>>, 0, Unset)]

\* lists of distinct words, and lists that repeat their first word
QuizDecks ==
    {QuizDeck(n) : n \in 1..QuizWords} \cup
    {Append(QuizDeck(n), QuizDeck(n)[1]) : n \in 1..(QuizWords - 1)}

QuizInit ==
    /\ savedWords = <<>>
    /\ savedSentences = <<>>
    /\ stored = Persisted(<<>>, <<>>, "none")
    /\ phase = "running"
    /\ currentView = "study"
    /\ studyQueue \in QuizDecks
    /\ now = Time(1, 0)
    /\ SearchViewInit
    /\ queue = studyQueue
    /\ currentIndex \in 0..(Len(studyQueue) - 1)
    /\ isFlipped = FALSE
    /\ studyMode = "quiz"
    /\ sessionStats = [reviewed |-> 0, forgotten |-> 0]
    /\ autoRead = FALSE
    /\ userInput = <<>>
    /\ quizOptions = <<>>
    /\ isAnswered = FALSE
    /\ mountPending = FALSE
    /\ advanceTimers = 0
    /\ lastRate = NoRate
    /\ gradeCount = [i \in DOMAIN studyQueue |-> 0]
    /\ revealedFor = -1
    /\ sessionStart = now
    /\ sessions = 1
    /\ lastAdvance = NoAdvance
    /\ lastCancel = NoCancel
    /\ ServiceInit

\* setQuizOptions(generateQuizOptions(currentWord.word)) (part_001:100)
SetQuizOptions ==
    /\ Mounted
    /\ studyMode = "quiz"
    /\ HasCurrentWord
    /\ quizOptions' \in GenerateQuizOptions(studyQueue, CurrentWord.word)
    /\ UNCHANGED <<appVars, searchVars, queue, currentIndex, isFlipped, studyMode,
                   sessionStats, autoRead, userInput, isAnswered, mountPending,
                   advanceTimers, historyVars, serviceVars, quickVars>>

QuizNext == SetQuizOptions

QuizSpec == QuizInit /\ [][QuizNext]_vars

PairwiseDistinct(s) == \A i, j \in DOMAIN s : s[i] = s[j] => i = j

QueueWords == [i \in DOMAIN studyQueue |-> studyQueue[i].word]

\* C9: over n pairwise-distinct words, the options hold the correct text
\* exactly once plus min(3, n - 1) pairwise-distinct other words of the list
\* (4 options when n >= 4); when n < 2 they are exactly [correct].
C9_QuizOptions ==
    LET n == Len(studyQueue)
        correct == CurrentWord.word
    IN  studyMode = "quiz" /\ quizOptions # <<>> /\ PairwiseDistinct(QueueWords) =>
            IF n < 2
            THEN quizOptions = <<correct>>
            ELSE /\ Len(quizOptions) = 1 + (IF n - 1 < 3 THEN n - 1 ELSE 3)
                 /\ Cardinality({i \in DOMAIN quizOptions : quizOptions[i] = correct}) = 1
                 /\ PairwiseDistinct(quizOptions)
                 /\ Range(quizOptions) \subseteq Range(QueueWords)
                 /\ n >= 4 => Len(quizOptions) = 4

\* five distinct words: three of the four others are drawn
C9_Witness ==
    /\ PairwiseDistinct(QueueWords)
    /\ Len(studyQueue) = 5
    /\ Len(quizOptions) = 4
    /\ quizOptions[4] = CurrentWord.word

----------------------------------------------------------------------------
\* gemini service: lookupWord and lookupSentence with their caches

\* the texts handed to a lookup: one word in either case, bare and padded
LookupInputs == {<<"h">>, <<"H">>, <<" ", "h">>, <<"H", " ">>}

\* the records the model returns; two calls for one text may differ
Records == {"r1", "r2"}

\* Map.prototype.has, get and set, a map being its set of entries
CacheHas(cache, key) == \E e \in cache : e.key = key
CacheGet(cache, key) == (CHOOSE e \in cache : e.key = key).rec
CacheSet(cache, key, rec) ==
    {e \in cache : e.key # key} \cup {[key |-> key, rec |-> rec]}

\* a word key that keeps the case of the input
WordKeyCased(input) == Trim(input)

\* input.trim().toLowerCase() (part_000:54)
WordKey(input) == ToLowerCase(Trim(input))

\* a sentence key folded to lower case like a word key
SentenceKeyLowered(input) == ToLowerCase(Trim(input))

\* input.trim() (part_000:75)
SentenceKey(input) == Trim(input)

CacheOf(kind) == IF kind = "word" THEN wordCache ELSE sentenceCache

\* the call up to its return from the cache or its await (part_000:54-59,
\* 75-79), as it changes the service
LookupCall(kind, input, key) ==
    /\ lookups < MaxLookups
    /\ lookups' = lookups + 1
    /\ IF CacheHas(CacheOf(kind), key)
       THEN /\ lastLookup' =
                  [kind |-> kind, input |-> input, hit |-> TRUE, network |-> FALSE,
                   returned |-> CacheGet(CacheOf(kind), key), seen |-> Len(successes)]
            /\ successes' =
                  Append(successes,
                         [kind |-> kind, input |-> input,
                          rec |-> CacheGet(CacheOf(kind), key)])
            /\ UNCHANGED inflight
       ELSE /\ lastLookup' =
                  [kind |-> kind, input |-> input, hit |-> FALSE, network |-> TRUE,
                   returned |-> "none", seen |-> Len(successes)]
            /\ inflight' =
                  inflight \cup
                  {[id |-> lookups', kind |-> kind, input |-> input, key |-> key]}
            /\ UNCHANGED successes
    /\ UNCHANGED <<wordCache, sentenceCache, lastFailure>>

\* a call made on the service alone
Lookup(kind, input, key) ==
    /\ LookupCall(kind, input, key)
    /\ UNCHANGED <<appVars, searchVars, sessionVars, historyVars, quickVars>>

\* lookupWord (part_000:53-59)
LookupWord(input) == Lookup("word", input, WordKey(input))

\* lookupSentence (part_000:74-79)
LookupSentence(input) == Lookup("sentence", input, SentenceKey(input))

----------------------------------------------------------------------------
\* App.tsx: the search view

\* "Không tìm thấy kết quả." (App.tsx:77)
ErrorMessage == "Khong tim thay ket qua."

\* the texts typed into the search input: one too short for the debounce
\* once trimmed, and another one bare and padded
Queries == {<<"h", " ">>, <<"h", "i">>, <<"h", "i", " ">>}

\* the record a search is answered with
SearchRecords == {"r1"}

SearchModes == {"word", "sentence"}

\* the handleSearch calls suspended on request req
Awaiting(req) == {p \in pendingSearches : p.req = req.id}

\* the try branch without the finally that clears the loading flag
OnResultKeepsLoading(p, rec) ==
    LET latest == latestQueryRef = p.clean
    IN  [wordData     |-> IF latest /\ p.mode = "word" THEN rec ELSE wordData,
         sentenceData |-> IF latest /\ p.mode = "sentence" THEN rec ELSE sentenceData,
         error        |-> error,
         loading      |-> loading]

\* what handleSearch writes after its await returned rec (App.tsx:71, 74, 79)
OnResult(p, rec) ==
    LET latest == latestQueryRef = p.clean
    IN  [wordData     |-> IF latest /\ p.mode = "word" THEN rec ELSE wordData,
         sentenceData |-> IF latest /\ p.mode = "sentence" THEN rec ELSE sentenceData,
         error        |-> error,
         loading      |-> IF latest THEN FALSE ELSE loading]

\* the catch branch also dropping the record on show
OnFailureClearing(p) ==
    LET latest == latestQueryRef = p.clean
    IN  [wordData     |-> IF latest THEN "none" ELSE wordData,
         sentenceData |-> IF latest THEN "none" ELSE sentenceData,
         error        |-> IF latest THEN ErrorMessage ELSE error,
         loading      |-> IF latest THEN FALSE ELSE loading]

\* what handleSearch writes after its await threw (App.tsx:77, 79)
OnFailure(p) ==
    LET latest == latestQueryRef = p.clean
    IN  [wordData     |-> wordData,
         sentenceData |-> sentenceData,
         error        |-> IF latest THEN ErrorMessage ELSE error,
         loading      |-> IF latest THEN FALSE ELSE loading]

\* the continuation of the handleSearch calls awaiting req, d being what
\* they write and outcome what they were given
Resume(req, d, outcome) ==
    IF Awaiting(req) = {}
    THEN UNCHANGED <<wordData, sentenceData, error, loading, pendingSearches,
                     lastApplied>>
    ELSE LET p == CHOOSE x \in Awaiting(req) : TRUE
         IN  /\ wordData' = d[p].wordData
             /\ sentenceData' = d[p].sentenceData
             /\ error' = d[p].error
             /\ loading' = d[p].loading
             /\ pendingSearches' = pendingSearches \ {p}
             /\ lastApplied' =
                   IF latestQueryRef = p.clean
                   THEN [sub |-> p.sub, latest |-> Len(submits), outcome |-> outcome]
                   ELSE lastApplied

\* handleSearch (App.tsx:61-81) of a render whose query is q and whose
\* searchMode is mode, for a q that is not blank; a record found in the cache
\* is written before any other event is handled
HandleSearchFrom(q, mode) ==
    LET clean == Trim(q)
        key   == IF mode = "word" THEN WordKey(clean) ELSE SentenceKey(clean)
        hit   == CacheHas(CacheOf(mode), key)
        rec   == CacheGet(CacheOf(mode), key)
    IN  /\ Len(submits) < MaxSubmits
        /\ LookupCall(mode, clean, key)
        /\ latestQueryRef' = clean
        /\ error' = "none"
        /\ submits' = Append(submits, q)
        /\ IF hit
           THEN /\ wordData' = IF mode = "word" THEN rec ELSE wordData
                /\ sentenceData' = IF mode = "sentence" THEN rec ELSE sentenceData
                /\ loading' = FALSE
                /\ lastApplied' =
                      [sub |-> Len(submits) + 1, latest |-> Len(submits) + 1,
                       outcome |-> rec]
                /\ UNCHANGED pendingSearches
           ELSE /\ loading' = TRUE
                /\ pendingSearches' =
                      pendingSearches \cup
                      {[req |-> lookups + 1, sub |-> Len(submits) + 1,
                        clean |-> clean, mode |-> mode]}
                /\ UNCHANGED <<wordData, sentenceData, lastApplied>>

\* onChange of the search input and its clear button (App.tsx:136, 142)
SetQuery(text) ==
    /\ phase = "running"
    /\ currentView = "search"
    /\ text # query
    /\ query' = text
    /\ RunDebounceEffect(currentView, text, searchMode)
    /\ UNCHANGED <<appVars, searchMode, wordData, sentenceData, loading, error,
                   latestQueryRef, pendingSearches, submits, lastApplied,
                   sessionVars, historyVars, serviceVars, quickVars>>

\* the two mode buttons (App.tsx:129-130)
SetSearchMode(mode) ==
    /\ phase = "running"
    /\ currentView = "search"
    /\ mode # searchMode
    /\ searchMode' = mode
    /\ RunDebounceEffect(currentView, query, mode)
    /\ UNCHANGED <<appVars, query, wordData, sentenceData, loading, error,
                   latestQueryRef, pendingSearches, submits, lastApplied,
                   sessionVars, historyVars, serviceVars, quickVars>>

\* the form is submitted (App.tsx:133); a blank query returns at once
SubmitSearch ==
    /\ phase = "running"
    /\ currentView = "search"
    /\ Trim(query) # <<>>
    /\ HandleSearchFrom(query, searchMode)
    /\ UNCHANGED <<appVars, query, searchMode, debounceTimers, debounceTimerRef,
                   debounceCleanup, sessionVars, historyVars, quickVars>>

\* the callback of setTimeout(() => handleSearch(), 400) (App.tsx:51)
DebounceFires(t) ==
    /\ t \in debounceTimers
    /\ debounceTimers' = debounceTimers \ {t}
    /\ IF Trim(t.query) # <<>>
       THEN HandleSearchFrom(t.query, t.mode)
       ELSE UNCHANGED <<wordData, sentenceData, loading, error, latestQueryRef,
                        pendingSearches, submits, lastApplied, serviceVars>>
    /\ UNCHANGED <<appVars, query, searchMode, debounceTimerRef, debounceCleanup,
                   sessionVars, historyVars, quickVars>>

----------------------------------------------------------------------------
\* App.tsx: quick lookups from a card or from the detail view

\* the words of a card that can be looked up
QuickWords == {<<"a">>, <<"b">>, <<"h", "i">>}

\* a card with onLookup is rendered: the word or sentence card of the search
\* view (App.tsx:144-147), or the detail view (App.tsx:172-173)
CardOnShow ==
    \/ /\ currentView = "search"
       /\ ~loading
       /\ error = "none"
       /\ \/ wordData # "none" /\ searchMode = "word"
          \/ sentenceData # "none" /\ searchMode = "sentence"
    \/ selectedDetail # "none"

\* the handleQuickLookup call suspended on request req
AwaitingQuick(req) == {p \in pendingQuick : p.req = req.id}

\* what handleQuickLookup writes after its await returned rec or threw
\* (App.tsx:103-104)
QuickContinues(rec) ==
    [selectedDetail |-> IF rec = "error" THEN selectedDetail ELSE rec,
     isSubLoading   |-> FALSE]

\* the quick lookups on record once call n was given rec
QuickAnswered(n, rec) ==
    [calls    |-> lastQuick.calls,
     shown    |-> IF rec = "error" THEN lastQuick.shown ELSE n,
     answered |-> IF n = lastQuick.calls THEN rec # "error" ELSE lastQuick.answered]

\* the continuation of the handleQuickLookup call awaiting req
ResumeQuick(req, rec) ==
    IF AwaitingQuick(req) = {}
    THEN UNCHANGED quickVars
    ELSE LET p == CHOOSE x \in AwaitingQuick(req) : TRUE
         IN  /\ selectedDetail' = QuickContinues(rec).selectedDetail
             /\ isSubLoading' = QuickContinues(rec).isSubLoading
             /\ pendingQuick' = pendingQuick \ {p}
             /\ lastQuick' = QuickAnswered(p.n, rec)

\* handleQuickLookup (App.tsx:99-105); a record found in the cache is
\* written before any other event is handled
HandleQuickLookup(word) ==
    LET key == WordKey(word)
        hit == CacheHas(wordCache, key)
        rec == CacheGet(wordCache, key)
        n   == lastQuick.calls + 1
    IN  /\ phase = "running"
        /\ CardOnShow
        /\ LookupCall("word", word, key)
        /\ IF hit
           THEN /\ selectedDetail' = rec
                /\ isSubLoading' = FALSE
                /\ lastQuick' = [calls |-> n, shown |-> n, answered |-> TRUE]
                /\ UNCHANGED pendingQuick
           ELSE /\ isSubLoading' = TRUE
                /\ pendingQuick' = pendingQuick \cup {[req |-> lookups + 1, n |-> n]}
                /\ lastQuick' = [calls |-> n, shown |-> lastQuick.shown,
                                 answered |-> FALSE]
                /\ UNCHANGED selectedDetail
        /\ UNCHANGED <<appVars, searchVars, sessionVars, historyVars>>

\* onClose of the detail view (App.tsx:173)
CloseDetail ==
    /\ phase = "running"
    /\ selectedDetail # "none"
    /\ selectedDetail' = "none"
    /\ lastQuick' = [lastQuick EXCEPT !.shown = 0]
    /\ UNCHANGED <<isSubLoading, pendingQuick, appVars, searchVars, sessionVars,
                   historyVars, serviceVars>>

----------------------------------------------------------------------------
\* gemini service: the responses

\* the response arrives and parses: the record is cached and returned
\* (part_000:69-71, 89-91), and the caller resumes
ResponseParsed(req, rec) ==
    /\ req \in inflight
    /\ inflight' = inflight \ {req}
    /\ IF req.kind = "word"
       THEN /\ wordCache' = CacheSet(wordCache, req.key, rec)
            /\ UNCHANGED sentenceCache
       ELSE /\ sentenceCache' = CacheSet(sentenceCache, req.key, rec)
            /\ UNCHANGED wordCache
    /\ successes' =
          Append(successes, [kind |-> req.kind, input |-> req.input, rec |-> rec])
    /\ Resume(req, [p \in Awaiting(req) |-> OnResult(p, rec)], rec)
    /\ ResumeQuick(req, rec)
    /\ UNCHANGED <<lookups, lastLookup, lastFailure, appVars, query, searchMode, latestQueryRef,
                   debounceTimers, debounceTimerRef, debounceCleanup, submits, sessionVars, historyVars>>

\* the rejection stored in the cache like a record
ResponseFailsCaching(req) ==
    /\ req \in inflight
    /\ inflight' = inflight \ {req}
    /\ IF req.kind = "word"
       THEN /\ wordCache' = CacheSet(wordCache, req.key, "error")
            /\ UNCHANGED sentenceCache
       ELSE /\ sentenceCache' = CacheSet(sentenceCache, req.key, "error")
            /\ UNCHANGED wordCache
    /\ Resume(req, [p \in Awaiting(req) |-> OnFailure(p)], "error")
    /\ ResumeQuick(req, "error")
    /\ lastFailure' = [id |-> req.id, kind |-> req.kind, key |-> req.key]
    /\ UNCHANGED <<lookups, successes, lastLookup,
                   appVars, query, searchMode, latestQueryRef, debounceTimers,
                   debounceTimerRef, debounceCleanup, submits,
                   sessionVars, historyVars>>

\* generateContent rejects, or JSON.parse throws: the lookup rejects, and the
\* caller resumes in its catch
ResponseFails(req) ==
    /\ req \in inflight
    /\ inflight' = inflight \ {req}
    /\ Resume(req, [p \in Awaiting(req) |-> OnFailure(p)], "error")
    /\ ResumeQuick(req, "error")
    /\ lastFailure' = [id |-> req.id, kind |-> req.kind, key |-> req.key]
    /\ UNCHANGED <<wordCache, sentenceCache, lookups, successes, lastLookup,
                   appVars, query, searchMode, latestQueryRef, debounceTimers,
                   debounceTimerRef, debounceCleanup, submits,
                   sessionVars, historyVars>>

LookupInit == Running(<<>>, <<>>, "none")

LookupNext ==
    \/ \E input \in LookupInputs : LookupWord(input)
    \/ \E input \in LookupInputs : LookupSentence(input)
    \/ \E req \in inflight, rec \in Records : ResponseParsed(req, rec)
    \/ \E req \in inflight : ResponseFails(req)

LookupSpec == LookupInit /\ [][LookupNext]_vars

\* the search view over the service: typing, submitting, the debounce timer
\* and the responses
SearchInit == Running(<<>>, <<>>, "none")

SearchNext ==
    \/ \E text \in Queries : SetQuery(text)
    \/ \E mode \in SearchModes : SetSearchMode(mode)
    \/ \E v \in {"search", "flashcards"} : SetCurrentView(v)
    \/ SubmitSearch
    \/ \E t \in debounceTimers : DebounceFires(t)
    \/ \E req \in inflight, rec \in SearchRecords : ResponseParsed(req, rec)
    \/ \E req \in inflight : ResponseFails(req)

SearchSpec == SearchInit /\ [][SearchNext]_vars

\* the key the cache is documented to use: words trimmed and lower-cased,
\* sentences trimmed only
DocumentedKey(kind, input) ==
    IF kind = "word" THEN ToLowerCase(Trim(input)) ELSE Trim(input)

\* the lookups of the same kind and key that had returned their record when
\* the last lookup was called, by their place in the order of returning
EarlierSame ==
    {i \in 1..lastLookup.seen :
        /\ successes[i].kind = lastLookup.kind
        /\ DocumentedKey(successes[i].kind, successes[i].input) =
              DocumentedKey(lastLookup.kind, lastLookup.input)}

Latest(S) == CHOOSE i \in S : \A j \in S : j <= i

\* C10 as stated: a lookup made after lookups have succeeded issues no
\* network call and returns the same record as an earlier one exactly when
\* its normalized key equals that one's (words trimmed and lower-cased,
\* sentences trimmed only).
C10_SameRecordAsEarlier ==
    lastLookup # NoLookup =>
        /\ lastLookup.hit <=> EarlierSame # {}
        /\ lastLookup.network <=> EarlierSame = {}
        /\ \A i \in EarlierSame : lastLookup.returned = successes[i].rec

\* C10, amended: such a lookup issues no network call exactly when an
\* earlier successful lookup of its kind had the same normalized key, and it
\* then returns the record of the one among them that returned last.
C10_CacheHit ==
    lastLookup # NoLookup =>
        /\ lastLookup.hit <=> EarlierSame # {}
        /\ lastLookup.network <=> EarlierSame = {}
        /\ EarlierSame # {} =>
              lastLookup.returned = successes[Latest(EarlierSame)].rec

\* "H" was looked up as a word, and " h" is then served from the cache
C10_Witness ==
    /\ lastLookup.kind = "word"
    /\ lastLookup.input = <<" ", "h">>
    /\ lastLookup.hit
    /\ \E i \in EarlierSame : successes[i].input = <<"H">>

----------------------------------------------------------------------------
\* Startup: the App is constructed over whatever localStorage holds, and
\* the decks are then edited

StartupInit ==
    /\ \E fw \in StoredWordValues, fs \in StoredSentenceValues :
          stored = [flashcards |-> fw, saved_sentences |-> fs,
                    vocab_auto_read |-> "none"]
    /\ phase = "boot"
    /\ savedWords = <<>>
    /\ savedSentences = <<>>
    /\ currentView = "search"
    /\ studyQueue = <<>>
    /\ now = Time(1, 0)
    /\ sessions = 0
    /\ SearchViewInit
    /\ Unmounted
    /\ NoHistory
    /\ ServiceInit

\* the first render of App (App.tsx:13-59): the two initializers run, then
\* dueCount filters both decks; a render that throws leaves no App (phase
\* "crashed" stands for it, the decks being values without filter or map),
\* one that returns is followed by the effect that writes the decks back
Construct ==
    /\ phase = "boot"
    /\ savedWords' = InitialWords.items
    /\ savedSentences' = InitialSentences.items
    /\ IF FirstRenderThrows
       THEN /\ phase' = "crashed"
            /\ UNCHANGED stored
       ELSE /\ phase' = "running"
            /\ PersistEffect(InitialWords.items, InitialSentences.items)
    /\ UNCHANGED <<currentView, studyQueue, now, searchVars, sessionVars,
                   historyVars, serviceVars, quickVars>>

StartupNext ==
    \/ Construct
    \/ \E w \in WordPool : HandleToggleSave(w)
    \/ \E w \in WordPool : RemoveWord(w)
    \/ \E t \in SentencePool : RemoveSentence(t)
    \/ \E v \in {"search", "flashcards"} : SetCurrentView(v)

StartupSpec == StartupInit /\ [][StartupNext]_vars

\* the collection a stored value stands for: its array, or the empty one
StoredOrEmpty(raw) == IF raw.kind = "array" THEN raw.items ELSE <<>>

\* C14: whatever localStorage holds under the two deck keys (nothing, a JSON
\* array, text that does not parse, or JSON that is not an array), startup
\* yields the stored array or the empty collection, and never a state in
\* which the deck operations fail.
C14_UsableDecks ==
    [][phase = "boot" =>
          /\ phase' = "running"
          /\ savedWords' = StoredOrEmpty(stored.flashcards)
          /\ savedSentences' = StoredOrEmpty(stored.saved_sentences)]_vars

----------------------------------------------------------------------------
\* Properties of the search view

\* the handleSearch calls made after call i up to the one that was latest
\* when call i's outcome was written
After(i, latest) == (i + 1)..latest

\* C11: if query A is submitted and then a different query B before A
\* resolves, A's outcome (result or error) is never written to the displayed
\* state, whichever request resolves first.  B counts as different when the
\* text its request is issued for, the trimmed query, differs from A's.
C11_SupersededByOther ==
    \A j \in After(lastApplied.sub, lastApplied.latest) :
        Trim(submits[j]) = Trim(submits[lastApplied.sub])

\* C12: whatever the submissions (A, B, A included) and the order of the
\* responses, an outcome written to the displayed state is that of the
\* request of the most recent submission, never that of a superseded one.
C12_LatestOnly == lastApplied.sub = lastApplied.latest

\* a handleSearch call of the latest submission resumes in its catch
LatestFails ==
    \E p \in pendingSearches :
        /\ p.sub = Len(submits)
        /\ p \notin pendingSearches'
        /\ successes' = successes

\* C13: when the lookup of the latest submitted query fails, the error
\* message is set, loading becomes false, wordData and sentenceData stay as
\* they were, and no lookup is issued again for it.
C13_FailureShown ==
    [][LatestFails =>
          /\ error' = "Khong tim thay ket qua."
          /\ loading' = FALSE
          /\ wordData' = wordData
          /\ sentenceData' = sentenceData
          /\ lookups' = lookups
          /\ inflight' \subseteq inflight
          /\ debounceTimers' = debounceTimers]_vars

\* the latest lookup failed while an earlier record was on show
C13_Witness ==
    /\ lastApplied.outcome = "error"
    /\ lastApplied.sub = Len(submits)
    /\ lastApplied.latest = Len(submits)
    /\ error # "none"
    /\ ~loading
    /\ wordData # "none"

\* C20: a change of the input text cancels the pending debounce timer, so at
\* most one is pending, and a lookup triggered by the timer is issued only
\* for the text that is current when it fires, only in the search view and
\* only when the trimmed text has at least 2 characters.
C20_Debounce ==
    /\ [](/\ Cardinality(debounceTimers) <= 1
          /\ \A t \in debounceTimers : t.query = query /\ t.mode = searchMode)
    /\ [][query' # query => debounceTimers' \cap debounceTimers = {}]_vars
    /\ [][debounceTimers' # debounceTimers /\ Len(submits') = Len(submits) + 1 =>
             /\ submits'[Len(submits')] = query
             /\ lastLookup'.input = Trim(query)
             /\ currentView = "search"
             /\ Len(Trim(query)) >= 2]_vars

\* the timer set for the current text has fired and issued its lookup
C20_Witness ==
    /\ debounceCleanup
    /\ debounceTimers = {}
    /\ submits # <<>>
    /\ submits[Len(submits)] = query
    /\ query = <<"h", "i", " ">>
    /\ lastLookup.input = <<"h", "i">>

\* the key the service files a call under
KeyOf(kind, input) == IF kind = "word" THEN WordKey(input) ELSE SentenceKey(input)

\* the records that lookups of this kind and key have returned
Returned(kind, key) ==
    {successes[i].rec : i \in {j \in DOMAIN successes :
        successes[j].kind = kind /\ KeyOf(kind, successes[j].input) = key}}

----------------------------------------------------------------------------
\* The search view when every request is answered

\* a request in flight gets its response, a record or a failure
Responds ==
    \E req \in inflight :
        \/ ResponseFails(req)
        \/ \E rec \in SearchRecords : ResponseParsed(req, rec)

\* generateContent settles every promise it returned
SearchLiveSpec == SearchInit /\ [][SearchNext]_vars /\ WF_vars(Responds)

\* C24: when every request issued is answered, with a record or a failure,
\* then after the last submission the loading flag becomes false and stays
\* so, whatever the order of submissions and responses.
C24_LoadingEnds == <>[](loading = FALSE)

\* two submissions of different texts were made, every request was
\* answered, the last submission's outcome was applied and nothing is loading
C24_Witness ==
    /\ Len(submits) >= 2
    /\ inflight = {}
    /\ pendingSearches = {}
    /\ lastApplied.sub = Len(submits)
    /\ Trim(submits[1]) # Trim(submits[Len(submits)])
    /\ loading = FALSE

----------------------------------------------------------------------------
\* The decks built from nothing: saving, deleting and grading

\* the words of the records on show: one of them in both cases
DeckWords == {<<"a">>, <<"A">>, <<"b">>}

\* the sentences of the records on show
DeckSentences == {<<"h", "i">>, <<"H", "i">>}

DeckInit == Running(<<>>, <<>>, "none")

DeckNext ==
    \/ \E w \in DeckWords : HandleToggleSave(w)
    \/ \E t \in DeckSentences : HandleToggleSaveSentence(t)
    \/ \E w \in DeckWords : RemoveWord(w)
    \/ \E t \in DeckSentences : RemoveSentence(t)
    \/ \E v \in {"search", "flashcards"} : SetCurrentView(v)
    \/ StartStudy
    \/ AdvanceClock
    \/ QueueInitEffect
    \/ SetStudyMode("flashcard")
    \/ HandleFlip
    \/ \E rating \in Ratings : HandleRate(rating)
    \/ AdvanceTimerFires
    \/ OnComplete

DeckSpec == DeckInit /\ [][DeckNext]_vars

\* C25: starting from empty decks, whatever is saved, deleted and graded, the
\* word deck holds no two entries whose words are equal ignoring case and
\* the sentence deck no two entries with the same sentence; an item newly
\* saved has srs_level 0 and is due at once.
C25_DeckUnique ==
    /\ [](\A i, j \in DOMAIN savedWords :
             ToLowerCase(savedWords[i].word) = ToLowerCase(savedWords[j].word)
                 => i = j)
    /\ [](\A i, j \in DOMAIN savedSentences :
             savedSentences[i].sentence = savedSentences[j].sentence => i = j)
    /\ [][Len(savedWords') > Len(savedWords) =>
             /\ Len(savedWords') = Len(savedWords) + 1
             /\ savedWords'[1].srs_level = 0
             /\ IsDue(savedWords'[1], now')]_vars
    /\ [][Len(savedSentences') > Len(savedSentences) =>
             /\ Len(savedSentences') = Len(savedSentences) + 1
             /\ savedSentences'[1].srs_level = 0
             /\ IsDue(savedSentences'[1], now')]_vars

\* a word was graded, its other case was toggled and a second word saved,
\* next to two sentences
C25_Witness ==
    /\ Len(savedWords) = 2
    /\ Len(savedSentences) = 2
    /\ sessions = 1
    /\ currentView # "study"
    /\ \E i \in DOMAIN savedWords : savedWords[i].word = <<"A">>
    /\ \E i \in DOMAIN savedWords : savedWords[i].srs_level > 0

----------------------------------------------------------------------------
\* The search view with its cards and the detail view

QuickInit == Running(<<>>, <<>>, "none")

QuickNext ==
    \/ \E text \in Queries : SetQuery(text)
    \/ SubmitSearch
    \/ \E t \in debounceTimers : DebounceFires(t)
    \/ \E word \in QuickWords : HandleQuickLookup(word)
    \/ CloseDetail
    \/ \E req \in inflight, rec \in Records : ResponseParsed(req, rec)
    \/ \E req \in inflight : ResponseFails(req)

QuickSpec == QuickInit /\ [][QuickNext]_vars

\* C21: when quick lookups were made one before the other resolved, the
\* sub-loading flag is true as long as the most recent one is pending, and
\* once they all resolved the detail shown is the record the most recent one
\* was given.
C21_QuickLatest ==
    /\ (\E p \in pendingQuick : p.n = lastQuick.calls) => isSubLoading
    /\ pendingQuick = {} /\ lastQuick.answered /\ selectedDetail # "none" =>
           lastQuick.shown = lastQuick.calls
====
